---- MODULE Spec2Model ----
(***************************************************************************)
(* PlexCache-R: the background-action runner (web/services/                *)
(* maintenance_runner.py), the single-instance lock and the path resolver  *)
(* (system_utils.py).                                                      *)
(*                                                                         *)
(* Several specifications share this module:                               *)
(*   Spec       the two execution slots (scheduled pass, maintenance)      *)
(*   SpecStatus get_status_dict polled while the maintenance slot changes  *)
(*   SpecLock   SingleInstanceLock used by several processes on one path   *)
(*   SpecPath   get_array_direct_path as a pure function of its inputs     *)
(*   SpecZfs    detect_zfs as a function of the probe and the mount table  *)
(*   SpecFile   FileUtils.copy_file_with_permissions and                   *)
(*              create_directory_with_permissions                          *)
(* Each leaves the variables of the others at their initial values.        *)
(***************************************************************************)
EXTENDS Integers, Sequences, FiniteSets, TLC

VARIABLES
    \* ---- execution slots -------------------------------------------------
    state,      \* MaintenanceRunner._state
    stop,       \* MaintenanceRunner._stop_requested
    resultRef,  \* MaintenanceRunner._result: 0 is None, k the k-th result object
    heap,       \* the MaintenanceResult objects created so far
    thread,     \* MaintenanceRunner._thread: 0 is None, k the k-th worker
    workers,    \* the worker threads launched so far
    opState,    \* state of the sibling slot, the OperationRunner
    call,       \* caller thread -> position and locals of its current call
    lastRet,    \* what the call that returned in the last step returned
    \* ---- instance lock ---------------------------------------------------
    pathInode,  \* inode the lock file path names, 0 when the path is absent
    content,    \* inode -> what the file holds (0 empty, p the pid of p)
    flockOwner, \* inode -> process whose open file description holds the flock
    lk,         \* process -> its SingleInstanceLock handle and position
    lockRet,    \* what the acquire that returned in the last step returned
    \* ---- path resolver ---------------------------------------------------
    zfsPrefixes, \* _zfs_user_prefixes
    pathArg,     \* the argument of the last get_array_direct_path call
    pathOut,     \* its result
    \* ---- ZFS detection ---------------------------------------------------
    probe,       \* what `df -T <path>` will answer
    mounts,      \* /proc/mounts: the lines, split into fields
    zfsArg,      \* the argument of the last detect_zfs call
    zfsRet,      \* its result
    \* ---- file transfer ---------------------------------------------------
    umask,       \* the file-creation mask of the process
    destFile,    \* the file at the destination path of the copies
    destDir,     \* the directory at the path of the directory creations
    fileRet      \* how the last FileUtils call ended

arbVars  == <<state, stop, resultRef, heap, thread, workers, opState, call, lastRet>>
lockVars == <<pathInode, content, flockOwner, lk, lockRet>>
pathVars == <<zfsPrefixes, pathArg, pathOut>>
zfsVars  == <<probe, mounts, zfsArg, zfsRet>>
fileVars == <<umask, destFile, destDir, fileRet>>
vars     == <<arbVars, lockVars, pathVars, zfsVars, fileVars>>

(***************************************************************************)
(* Bounds of the model.                                                    *)
(***************************************************************************)
NumCallers == 2   \* threads that call start, stop and dismiss
NumPollers == 1   \* how many of them also poll get_status_dict
MaxRuns == 2      \* maintenance actions started

Callers == 1..NumCallers
Pollers == 1..NumPollers

(***************************************************************************)
(* The maintenance slot: MaintenanceRunner.                                *)
(***************************************************************************)
IDLE      == "idle"
RUNNING   == "running"
COMPLETED == "completed"
FAILED    == "failed"
MaintenanceState == {IDLE, RUNNING, COMPLETED, FAILED}

None == "None"

ACTION_DISPLAY ==
    [a \in {"protect-with-backup", "sync-to-array", "fix-with-backup",
            "restore-plexcached", "delete-plexcached"} |->
        CASE a = "protect-with-backup" -> "Keeping {count} file(s) on cache..."
          [] a = "sync-to-array"       -> "Moving {count} file(s) to array..."
          [] a = "fix-with-backup"     -> "Fixing {count} file(s) with backup..."
          [] a = "restore-plexcached"  -> "Restoring {count} backup(s)..."
          [] a = "delete-plexcached"   -> "Deleting {count} backup(s)..."]

\* ACTION_DISPLAY.get(name, default).format(count=file_count): the template
\* and the number substituted into it (the default has no placeholder).
Display(name, n) ==
    IF name \in DOMAIN ACTION_DISPLAY
    THEN [template |-> ACTION_DISPLAY[name], count |-> n]
    ELSE [template |-> "Running maintenance action...", count |-> 0]

\* The arguments of a start call: a known action with a completion callback,
\* and an unknown action without one.
StartInputs ==
    { [action_name |-> "sync-to-array", file_count |-> 2, on_complete |-> TRUE],
      [action_name |-> "custom",        file_count |-> 0, on_complete |-> FALSE] }

MaintenanceResult(st, name, disp, started, fc) ==
    [ state            |-> st,
      action_name      |-> name,
      action_display   |-> disp,
      started_at       |-> started,
      completed_at     |-> 0,
      duration_seconds |-> 0,
      action_result    |-> None,
      error_message    |-> None,
      file_count       |-> fc ]

\* How the work function of a run ends: it returns a result; it returns early
\* because stop_check() answered true; it raises an Exception whose str() is
\* non-empty; it raises one whose str() is empty (a bare assert, raise
\* ValueError()); it raises a BaseException that is no Exception (SystemExit).
Outcomes == {"ok", "stopped", "exc_msg", "exc_empty", "base_exc"}
Raised(o) == o \in {"exc_msg", "exc_empty", "base_exc"}

\* str(e) for the exception caught at line 196; None when nothing was caught.
CaughtMessage(o) ==
    CASE o = "exc_msg"   -> "boom"
      [] o = "exc_empty" -> ""
      [] OTHER           -> None

\* Python truthiness of error_message (line 208): None and "" are falsy.
Truthy(msg) == msg # None /\ msg # ""

IdleCall == [pc |-> "idle", inp |-> None, ref |-> 0, snap |-> None]
\* lastRet: the operation that returned, the truth of the value it returned
\* (False for dismiss, which returns None) and, for status, the dictionary.
NoRet == [op |-> None, ok |-> FALSE, snap |-> None]
Ret(op, ok, snap) == [op |-> op, ok |-> ok, snap |-> snap]

NewWorker(inp) ==
    [ pc          |-> "work",
      on_complete |-> inp.on_complete,
      outcome     |-> None,
      cb_calls    |-> 0,
      cb_raised   |-> FALSE,
      escaped     |-> FALSE ]

InitArbiter ==
    /\ state     = IDLE
    /\ stop      = FALSE
    /\ resultRef = 0
    /\ heap      = <<>>
    /\ thread    = 0
    /\ workers   = <<>>
    /\ opState   = IDLE
    /\ call      = [c \in Callers |-> IdleCall]
    /\ lastRet   = NoRet

(***************************************************************************)
(* start_action.  Three steps: the unlocked look at the sibling slot, the  *)
(* block under self._lock, and the launch of the worker thread.            *)
(***************************************************************************)
\* A start that never looks at the sibling slot.
SiblingBlocksNever == FALSE

\* get_operation_runner().is_running
SiblingBlocks == opState = RUNNING

\* self._state == MaintenanceState.RUNNING, under self._lock
AlreadyRunning == state = RUNNING

StartCheck(c, inp) ==
    /\ UNCHANGED <<lockVars, pathVars, zfsVars, fileVars>>
    /\ call[c].pc = "idle"
    /\ Len(heap) < MaxRuns
    /\ IF SiblingBlocks
       THEN /\ lastRet' = Ret("start", FALSE, None)
            /\ UNCHANGED call
       ELSE /\ call' = [call EXCEPT ![c] =
                           [IdleCall EXCEPT !.pc = "start_lock", !.inp = inp]]
            /\ lastRet' = NoRet
    /\ UNCHANGED <<state, stop, resultRef, heap, thread, workers, opState>>

StartLocked(c) ==
    LET inp == call[c].inp
        k   == Len(heap) + 1
    IN  /\ UNCHANGED <<lockVars, pathVars, zfsVars, fileVars>>
        /\ call[c].pc = "start_lock"
        /\ IF AlreadyRunning
           THEN /\ call' = [call EXCEPT ![c] = IdleCall]
                /\ lastRet' = Ret("start", FALSE, None)
                /\ UNCHANGED <<state, stop, resultRef, heap>>
           ELSE /\ k <= MaxRuns
                /\ state' = RUNNING
                /\ stop' = FALSE
                /\ heap' = Append(heap,
                              MaintenanceResult(RUNNING, inp.action_name,
                                  Display(inp.action_name, inp.file_count),
                                  k, inp.file_count))
                /\ resultRef' = k
                /\ call' = [call EXCEPT ![c].pc = "start_launch"]
                /\ lastRet' = NoRet
        /\ UNCHANGED <<thread, workers, opState>>

StartLaunch(c) ==
    /\ UNCHANGED <<lockVars, pathVars, zfsVars, fileVars>>
    /\ call[c].pc = "start_launch"
    /\ workers' = Append(workers, NewWorker(call[c].inp))
    /\ thread' = Len(workers) + 1
    /\ call' = [call EXCEPT ![c] = IdleCall]
    /\ lastRet' = Ret("start", TRUE, None)
    /\ UNCHANGED <<state, stop, resultRef, heap, opState>>

(***************************************************************************)
(* stop_action and dismiss: one block under self._lock each.               *)
(***************************************************************************)
\* A stop that takes effect in every state.
NotRunningNever == FALSE

\* self._state != MaintenanceState.RUNNING
NotRunning == state # RUNNING

StopAction(c) ==
    /\ UNCHANGED <<lockVars, pathVars, zfsVars, fileVars>>
    /\ call[c].pc = "idle"
    /\ IF NotRunning
       THEN /\ lastRet' = Ret("stop", FALSE, None)
            /\ UNCHANGED stop
       ELSE /\ stop' = TRUE
            /\ lastRet' = Ret("stop", TRUE, None)
    /\ UNCHANGED <<state, resultRef, heap, thread, workers, opState, call>>

\* A dismiss that resets every state but IDLE.
DismissAppliesAlways == state # IDLE

\* A dismiss that resets COMPLETED only.
DismissAppliesOnlyCompleted == state = COMPLETED

\* self._state in (COMPLETED, FAILED)
DismissApplies == state \in {COMPLETED, FAILED}

\* A dismiss that also blanks what the run left in its record.
DismissedBlank(r) ==
    [r EXCEPT !.state = IDLE, !.completed_at = 0, !.duration_seconds = 0,
              !.error_message = None, !.action_result = None]

\* self._result.state = MaintenanceState.IDLE
Dismissed(r) == [r EXCEPT !.state = IDLE]

Dismiss(c) ==
    /\ UNCHANGED <<lockVars, pathVars, zfsVars, fileVars>>
    /\ call[c].pc = "idle"
    /\ IF DismissApplies
       THEN /\ state' = IDLE
            /\ heap' = IF resultRef # 0
                       THEN [heap EXCEPT ![resultRef] = Dismissed(@)]
                       ELSE heap
       ELSE UNCHANGED <<state, heap>>
    /\ lastRet' = Ret("dismiss", FALSE, None)
    /\ UNCHANGED <<stop, resultRef, thread, workers, opState, call>>

(***************************************************************************)
(* _run_action, the worker thread of one run.  The block under self._lock  *)
(* is two steps here, because get_status_dict reads the fields it writes   *)
(* without the lock; every reader that takes the lock sees _state change   *)
(* once, at the second step.                                               *)
(***************************************************************************)
\* The work ends with outcome o (it can end "stopped" only when the injected
\* stop_check, lambda: self._stop_requested, answers true); the finally block
\* records the completion time, the duration and the action result.
WorkerRecord(k, o) ==
    /\ UNCHANGED <<lockVars, pathVars, zfsVars, fileVars>>
    /\ k \in DOMAIN workers
    /\ workers[k].pc = "work"
    /\ o = "stopped" => stop
    /\ workers' = [workers EXCEPT ![k].pc = "set_state", ![k].outcome = o]
    /\ heap' = [heap EXCEPT ![resultRef] =
                   [@ EXCEPT !.completed_at = resultRef,
                             !.duration_seconds = 1,
                             !.action_result =
                                 IF o \in {"ok", "stopped"} THEN "result" ELSE None]]
    /\ lastRet' = NoRet
    /\ UNCHANGED <<state, stop, resultRef, thread, opState, call>>

\* A callback that is skipped when the work raised.
CallbackDueOnSuccess(w) == w.on_complete /\ ~Raised(w.outcome)

\* if on_complete:
CallbackDue(w) == w.on_complete

\* if error_message: FAILED with the message, else COMPLETED; the lock is
\* released.  Without a callback the thread ends here, and a BaseException
\* raised by the work leaves the finally block and the thread with it.
WorkerSetState(k) ==
    LET w   == workers[k]
        msg == CaughtMessage(w.outcome)
    IN  /\ UNCHANGED <<lockVars, pathVars, zfsVars, fileVars>>
        /\ k \in DOMAIN workers
        /\ w.pc = "set_state"
        /\ IF Truthy(msg)
           THEN /\ heap' = [heap EXCEPT ![resultRef] =
                               [@ EXCEPT !.state = FAILED, !.error_message = msg]]
                /\ state' = FAILED
           ELSE /\ heap' = [heap EXCEPT ![resultRef].state = COMPLETED]
                /\ state' = COMPLETED
        /\ workers' = [workers EXCEPT ![k] =
                          IF CallbackDue(w)
                          THEN [w EXCEPT !.pc = "callback"]
                          ELSE [w EXCEPT !.pc = "done",
                                         !.escaped = (w.outcome = "base_exc")]]
        /\ lastRet' = NoRet
        /\ UNCHANGED <<stop, resultRef, thread, opState, call>>

\* on_complete() is called; an Exception it raises is logged and dropped.
WorkerCallback(k, cbRaises) ==
    LET w == workers[k]
    IN  /\ UNCHANGED <<lockVars, pathVars, zfsVars, fileVars>>
        /\ k \in DOMAIN workers
        /\ w.pc = "callback"
        /\ workers' = [workers EXCEPT ![k] =
                          [w EXCEPT !.pc = "done",
                                    !.cb_calls = @ + 1,
                                    !.cb_raised = cbRaises,
                                    !.escaped = (w.outcome = "base_exc")]]
        /\ lastRet' = NoRet
        /\ UNCHANGED <<state, stop, resultRef, heap, thread, opState, call>>

(***************************************************************************)
(* get_status_dict.  self.result and self.state are read under the lock;   *)
(* the fields of the result object are then read one by one without it.    *)
(***************************************************************************)
IdleSnap ==
    [ full |-> FALSE, state |-> IDLE, is_running |-> FALSE,
      action_name |-> None, action_display |-> None, started_at |-> 0,
      completed_at |-> 0, duration_seconds |-> 0, file_count |-> 0,
      error_message |-> None, has_result |-> FALSE ]

StatusReadResult(c) ==
    /\ UNCHANGED <<lockVars, pathVars, zfsVars, fileVars>>
    /\ c \in Pollers
    /\ call[c].pc = "idle"
    /\ IF resultRef = 0
       THEN /\ lastRet' = Ret("status", TRUE, IdleSnap)
            /\ UNCHANGED call
       ELSE /\ call' = [call EXCEPT ![c] =
                           [IdleCall EXCEPT !.pc = "st_state", !.ref = resultRef]]
            /\ lastRet' = NoRet
    /\ UNCHANGED <<state, stop, resultRef, heap, thread, workers, opState>>

StatusReadState(c) ==
    /\ UNCHANGED <<lockVars, pathVars, zfsVars, fileVars>>
    /\ call[c].pc = "st_state"
    /\ IF state = IDLE
       THEN /\ call' = [call EXCEPT ![c] = IdleCall]
            /\ lastRet' = Ret("status", TRUE, IdleSnap)
       ELSE /\ call' = [call EXCEPT ![c].pc = "st_f_state",
                                    ![c].snap = [IdleSnap EXCEPT !.full = TRUE]]
            /\ lastRet' = NoRet
    /\ UNCHANGED <<state, stop, resultRef, heap, thread, workers, opState>>

\* "state": result.state.value
StatusFieldState(c) ==
    LET r == heap[call[c].ref]
    IN  /\ UNCHANGED <<lockVars, pathVars, zfsVars, fileVars>>
        /\ call[c].pc = "st_f_state"
        /\ call' = [call EXCEPT ![c].pc = "st_f_running",
                                ![c].snap.state = r.state]
        /\ lastRet' = NoRet
        /\ UNCHANGED <<state, stop, resultRef, heap, thread, workers, opState>>

\* "is_running": result.state == RUNNING, then the fields fixed at creation
StatusFieldRunning(c) ==
    LET r == heap[call[c].ref]
    IN  /\ UNCHANGED <<lockVars, pathVars, zfsVars, fileVars>>
        /\ call[c].pc = "st_f_running"
        /\ call' = [call EXCEPT ![c].pc = "st_f_completed",
                                ![c].snap.is_running = (r.state = RUNNING),
                                ![c].snap.action_name = r.action_name,
                                ![c].snap.action_display = r.action_display,
                                ![c].snap.started_at = r.started_at]
        /\ lastRet' = NoRet
        /\ UNCHANGED <<state, stop, resultRef, heap, thread, workers, opState>>

\* "completed_at", "duration_seconds", "file_count"
StatusFieldCompleted(c) ==
    LET r == heap[call[c].ref]
    IN  /\ UNCHANGED <<lockVars, pathVars, zfsVars, fileVars>>
        /\ call[c].pc = "st_f_completed"
        /\ call' = [call EXCEPT ![c].pc = "st_f_error",
                                ![c].snap.completed_at = r.completed_at,
                                ![c].snap.duration_seconds = r.duration_seconds,
                                ![c].snap.file_count = r.file_count]
        /\ lastRet' = NoRet
        /\ UNCHANGED <<state, stop, resultRef, heap, thread, workers, opState>>

\* "error_message", then: if result.action_result: the result details are
\* added; return status
StatusFieldError(c) ==
    LET r == heap[call[c].ref]
    IN  /\ UNCHANGED <<lockVars, pathVars, zfsVars, fileVars>>
        /\ call[c].pc = "st_f_error"
        /\ call' = [call EXCEPT ![c].pc = "st_f_result",
                                ![c].snap.error_message = r.error_message]
        /\ lastRet' = NoRet
        /\ UNCHANGED <<state, stop, resultRef, heap, thread, workers, opState>>

StatusFieldResult(c) ==
    LET r == heap[call[c].ref]
    IN  /\ UNCHANGED <<lockVars, pathVars, zfsVars, fileVars>>
        /\ call[c].pc = "st_f_result"
        /\ call' = [call EXCEPT ![c] = IdleCall]
        /\ lastRet' = Ret("status", TRUE,
                          [call[c].snap EXCEPT !.has_result = (r.action_result # None)])
        /\ UNCHANGED <<state, stop, resultRef, heap, thread, workers, opState>>

(***************************************************************************)
(* The sibling slot, OperationRunner: the same protocol with the roles     *)
(* swapped (its start first asks get_maintenance_runner().is_running), its *)
(* result record and its worker's work left out.                           *)
(***************************************************************************)
OpStartCheck(c) ==
    /\ UNCHANGED <<lockVars, pathVars, zfsVars, fileVars>>
    /\ call[c].pc = "idle"
    /\ IF state = RUNNING
       THEN /\ lastRet' = Ret("op_start", FALSE, None)
            /\ UNCHANGED call
       ELSE /\ call' = [call EXCEPT ![c] = [IdleCall EXCEPT !.pc = "op_start_lock"]]
            /\ lastRet' = NoRet
    /\ UNCHANGED <<state, stop, resultRef, heap, thread, workers, opState>>

OpStartLocked(c) ==
    /\ UNCHANGED <<lockVars, pathVars, zfsVars, fileVars>>
    /\ call[c].pc = "op_start_lock"
    /\ IF opState = RUNNING
       THEN /\ lastRet' = Ret("op_start", FALSE, None)
            /\ UNCHANGED opState
       ELSE /\ opState' = RUNNING
            /\ lastRet' = Ret("op_start", TRUE, None)
    /\ call' = [call EXCEPT ![c] = IdleCall]
    /\ UNCHANGED <<state, stop, resultRef, heap, thread, workers>>

OpWorkerFinish(failed) ==
    /\ UNCHANGED <<lockVars, pathVars, zfsVars, fileVars>>
    /\ opState = RUNNING
    /\ opState' = IF failed THEN FAILED ELSE COMPLETED
    /\ lastRet' = NoRet
    /\ UNCHANGED <<state, stop, resultRef, heap, thread, workers, call>>

OpDismiss(c) ==
    /\ UNCHANGED <<lockVars, pathVars, zfsVars, fileVars>>
    /\ call[c].pc = "idle"
    /\ opState \in {COMPLETED, FAILED}
    /\ opState' = IDLE
    /\ lastRet' = NoRet
    /\ UNCHANGED <<state, stop, resultRef, heap, thread, workers, call>>

(***************************************************************************)
(* The slots' specifications.  Spec is the control side: the callers start,*)
(* stop and dismiss on both slots while the workers run.  SpecStatus is    *)
(* the polling side: the pollers read the status of the maintenance slot   *)
(* while the other callers and the workers change it.  get_status_dict     *)
(* writes nothing the other operations read, so Spec loses no behaviour of *)
(* theirs by leaving the polls out.                                        *)
(***************************************************************************)
ControlStep(c) ==
    \/ \E inp \in StartInputs : StartCheck(c, inp)
    \/ StartLocked(c)
    \/ StartLaunch(c)
    \/ StopAction(c)
    \/ Dismiss(c)

PollStep(c) ==
    \/ StatusReadResult(c)
    \/ StatusReadState(c)
    \/ StatusFieldState(c)
    \/ StatusFieldRunning(c)
    \/ StatusFieldCompleted(c)
    \/ StatusFieldError(c)
    \/ StatusFieldResult(c)

OpStep(c) ==
    \/ OpStartCheck(c)
    \/ OpStartLocked(c)
    \/ OpDismiss(c)

WorkerStep ==
    \E k \in 1..MaxRuns :
        \/ \E o \in Outcomes : WorkerRecord(k, o)
        \/ WorkerSetState(k)
        \/ \E cbRaises \in BOOLEAN : WorkerCallback(k, cbRaises)

OpWorkerStep == \E failed \in BOOLEAN : OpWorkerFinish(failed)

(***************************************************************************)
(* SingleInstanceLock, used by several processes on one lock file path.    *)
(* The file system keeps, for the path, the inode it names; an inode lives *)
(* on after os.remove while a descriptor is open on it.  flock locks the   *)
(* inode for one open file description.                                    *)
(***************************************************************************)
NumProcs == 2

Procs == 1..NumProcs
\* One inode the path names and one more per open descriptor are enough.
Inodes == 1..(NumProcs + 1)

\* __init__: lock_fd = None, locked = False
\* last is no field of the object: it records how the last acquire call on
\* the handle ended ("ok", "failed", or None before any).
NewHandle == [pc |-> "idle", fd |-> 0, locked |-> FALSE, last |-> None]
NoLockRet == [proc |-> 0, op |-> None, ok |-> FALSE]
LockRet(p, op, ok) == [proc |-> p, op |-> op, ok |-> ok]

InitLockFs ==
    /\ pathInode = 0
    /\ content = [i \in Inodes |-> 0]
    /\ flockOwner = [i \in Inodes |-> 0]
    /\ lk = [p \in Procs |-> NewHandle]
    /\ lockRet = NoLockRet

\* An inode neither named by the path nor open in any process.
FreeInode ==
    CHOOSE i \in Inodes :
        /\ i # pathInode
        /\ \A p \in Procs : lk[p].fd # i
        /\ \A j \in Inodes :
              (j # pathInode /\ \A p \in Procs : lk[p].fd # j) => i <= j

\* close(fd): the kernel drops the flock of the description with it.
Closed(owner, p, i) ==
    IF i # 0 /\ owner[i] = p THEN [owner EXCEPT ![i] = 0] ELSE owner

\* self.lock_fd = open(self.lock_file, 'w'): creates the file when the path is
\* absent, truncates it otherwise.  acquire is called on a handle that has
\* no descriptor: a new one, a released one, or one a failed release left
\* marked as held (a second acquire on a handle that still has its descriptor
\* is left out).  When open raises (the directory of the
\* lock file is missing or not writable: an OSError) lock_fd keeps its value,
\* the except branch of line 168 is taken and acquire returns False.
AcquireOpen(p, opens) ==
    /\ UNCHANGED <<arbVars, pathVars, zfsVars, fileVars>>
    /\ lk[p].pc = "idle"
    /\ lk[p].fd = 0
    /\ IF opens
       THEN LET i == IF pathInode = 0 THEN FreeInode ELSE pathInode
            IN  /\ pathInode' = i
                /\ content' = [content EXCEPT ![i] = 0]
                /\ lk' = [lk EXCEPT ![p].pc = "opened", ![p].fd = i]
                /\ lockRet' = NoLockRet
       ELSE /\ lk' = [lk EXCEPT ![p].fd = 0, ![p].last = "failed"]
            /\ lockRet' = LockRet(p, "acquire", FALSE)
            /\ UNCHANGED <<pathInode, content>>
    /\ UNCHANGED flockOwner

\* LOCK_EX | LOCK_NB: fails when another open file description holds the
\* lock of this inode.
FlockGranted(p, i) == flockOwner[i] = 0

\* fcntl.flock(self.lock_fd, LOCK_EX | LOCK_NB); on failure the except branch
\* closes the descriptor and acquire returns False.
AcquireFlock(p) ==
    LET i == lk[p].fd
    IN  /\ UNCHANGED <<arbVars, pathVars, zfsVars, fileVars>>
        /\ lk[p].pc = "opened"
        /\ IF FlockGranted(p, i)
           THEN /\ flockOwner' = [flockOwner EXCEPT ![i] = p]
                /\ lk' = [lk EXCEPT ![p].pc = "flocked"]
                /\ lockRet' = NoLockRet
           ELSE /\ lk' = [lk EXCEPT ![p].pc = "idle", ![p].fd = 0,
                                    ![p].last = "failed"]
                /\ lockRet' = LockRet(p, "acquire", FALSE)
                /\ UNCHANGED flockOwner
        /\ UNCHANGED <<pathInode, content>>

\* write(str(os.getpid())); flush(); self.locked = True; return True
AcquireWrite(p) ==
    /\ UNCHANGED <<arbVars, pathVars, zfsVars, fileVars>>
    /\ lk[p].pc = "flocked"
    /\ content' = [content EXCEPT ![lk[p].fd] = p]
    /\ lk' = [lk EXCEPT ![p].pc = "idle", ![p].locked = TRUE,
                        ![p].last = "ok"]
    /\ lockRet' = LockRet(p, "acquire", TRUE)
    /\ UNCHANGED <<pathInode, flockOwner>>

\* release(): if not self.locked: return; otherwise flock(LOCK_UN) when
\* lock_fd is set.
\* if not self.locked: return
NotLocked(p) == ~lk[p].locked

ReleaseUnlock(p) ==
    /\ UNCHANGED <<arbVars, pathVars, zfsVars, fileVars>>
    /\ lk[p].pc = "idle"
    /\ IF NotLocked(p)
       THEN /\ lockRet' = LockRet(p, "release", FALSE)
            /\ UNCHANGED <<lk, flockOwner>>
       ELSE /\ flockOwner' = Closed(flockOwner, p, lk[p].fd)
            /\ lk' = [lk EXCEPT ![p].pc = IF lk[p].fd # 0 THEN "rel_close"
                                                           ELSE "rel_exists"]
            /\ lockRet' = NoLockRet
    /\ UNCHANGED <<pathInode, content>>

\* self.lock_fd.close(); self.lock_fd = None
ReleaseClose(p) ==
    /\ UNCHANGED <<arbVars, pathVars, zfsVars, fileVars>>
    /\ lk[p].pc = "rel_close"
    /\ lk' = [lk EXCEPT ![p].pc = "rel_exists", ![p].fd = 0]
    /\ lockRet' = NoLockRet
    /\ UNCHANGED <<pathInode, content, flockOwner>>

\* if os.path.exists(self.lock_file): ... else self.locked = False
ReleaseExists(p) ==
    /\ UNCHANGED <<arbVars, pathVars, zfsVars, fileVars>>
    /\ lk[p].pc = "rel_exists"
    /\ IF pathInode # 0
       THEN /\ lk' = [lk EXCEPT ![p].pc = "rel_remove"]
            /\ lockRet' = NoLockRet
       ELSE /\ lk' = [lk EXCEPT ![p].pc = "idle", ![p].locked = FALSE]
            /\ lockRet' = LockRet(p, "release", TRUE)
    /\ UNCHANGED <<pathInode, content, flockOwner>>

\* os.remove(self.lock_file); self.locked = False.  When the file is gone by
\* now os.remove raises, except Exception: pass swallows it and self.locked
\* stays True.
ReleaseRemove(p) ==
    /\ UNCHANGED <<arbVars, pathVars, zfsVars, fileVars>>
    /\ lk[p].pc = "rel_remove"
    /\ IF pathInode # 0
       THEN /\ pathInode' = 0
            /\ lk' = [lk EXCEPT ![p].pc = "idle", ![p].locked = FALSE]
       ELSE /\ lk' = [lk EXCEPT ![p].pc = "idle"]
            /\ UNCHANGED pathInode
    /\ lockRet' = LockRet(p, "release", TRUE)
    /\ UNCHANGED <<content, flockOwner>>

\* The process is killed or crashes: no exit hook runs, the kernel closes its
\* descriptors (and drops its flock), the lock file stays.  A new process
\* takes its place with a fresh handle.
Crash(p) ==
    /\ UNCHANGED <<arbVars, pathVars, zfsVars, fileVars>>
    /\ lk[p] # NewHandle
    /\ flockOwner' = Closed(flockOwner, p, lk[p].fd)
    /\ lk' = [lk EXCEPT ![p] = NewHandle]
    /\ lockRet' = NoLockRet
    /\ UNCHANGED <<pathInode, content>>

LockStep(p) ==
    \/ \E opens \in BOOLEAN : AcquireOpen(p, opens)
    \/ AcquireFlock(p)
    \/ AcquireWrite(p)
    \/ ReleaseUnlock(p)
    \/ ReleaseClose(p)
    \/ ReleaseExists(p)
    \/ ReleaseRemove(p)
    \/ Crash(p)

\* The OS-level lock: p's open file description holds a flock.
OwnsFlock(p) == lk[p].fd # 0 /\ flockOwner[lk[p].fd] = p

\* A valid handle: held = true, outside acquire and release, with its flock.
Holds(p) == lk[p].locked /\ lk[p].pc = "idle" /\ OwnsFlock(p)

(***************************************************************************)
(* get_array_direct_path.  A path is the sequence of its characters.       *)
(***************************************************************************)
MaxTail == 3       \* characters of a path after its head
MaxNameLen == 1    \* characters of a registered share name
MaxPrefixes == 2   \* prefixes registered at once

\* '/mnt/user/' and '/mnt/user0/'
UserRoot  == <<"/", "m", "n", "t", "/", "u", "s", "e", "r", "/">>
ArrayRoot == <<"/", "m", "n", "t", "/", "u", "s", "e", "r", "0", "/">>

\* str.startswith(pre) and s[n:]
StartsWith(s, pre) == Len(pre) <= Len(s) /\ SubSeq(s, 1, Len(pre)) = pre
SliceFrom(s, n) == SubSeq(s, n + 1, Len(s))

SeqsUpTo(A, n) == UNION { [1..m -> A] : m \in 0..n }

\* The paths the function is applied to: under the union mount, beside it,
\* under the array root, and relative.
PathHeads ==
    { <<>>, UserRoot, ArrayRoot, SubSeq(UserRoot, 1, Len(UserRoot) - 1) }
Paths == { h \o tl : h \in PathHeads, tl \in SeqsUpTo({"t", "2", "/"}, MaxTail) }

\* The prefixes set_zfs_prefixes is given: share directories under the union
\* mount, with or without a trailing separator.
ShareNames == SeqsUpTo({"t", "2"}, MaxNameLen) \ {<<>>}
PrefixCandidates ==
    { UserRoot \o n : n \in ShareNames } \cup { UserRoot \o n \o <<"/">> : n \in ShareNames }
PrefixSets == { S \in SUBSET PrefixCandidates : Cardinality(S) <= MaxPrefixes }

InitPathFs ==
    /\ zfsPrefixes = {}
    /\ pathArg = <<>>
    /\ pathOut = <<>>

\* set_zfs_prefixes(prefixes); the record of the last call is dropped with the
\* set it was answered under.
SetZfsPrefixes(prefixes) ==
    /\ UNCHANGED <<arbVars, lockVars, zfsVars, fileVars>>
    /\ zfsPrefixes' = prefixes
    /\ pathArg' = <<>>
    /\ pathOut' = <<>>

\* the slice taken one character early: user_share_path[len('/mnt/user'):]
get_array_direct_path_short_slice(user_share_path) ==
    IF StartsWith(user_share_path, UserRoot)
    THEN IF \E prefix \in zfsPrefixes : StartsWith(user_share_path, prefix)
         THEN user_share_path
         ELSE ArrayRoot \o SliceFrom(user_share_path, Len(UserRoot) - 1)
    ELSE user_share_path

get_array_direct_path(user_share_path) ==
    IF StartsWith(user_share_path, UserRoot)
    THEN IF \E prefix \in zfsPrefixes : StartsWith(user_share_path, prefix)
         THEN user_share_path
         ELSE ArrayRoot \o SliceFrom(user_share_path, Len(UserRoot))
    ELSE user_share_path

GetArrayDirectPath(path) ==
    /\ UNCHANGED <<arbVars, lockVars, zfsVars, fileVars>>
    /\ pathArg' = path
    /\ pathOut' = get_array_direct_path(path)
    /\ UNCHANGED zfsPrefixes

(***************************************************************************)
(* detect_zfs and _check_zfs_mount_for_share.  Texts are sequences of      *)
(* characters; the output of df and the lines of /proc/mounts are built    *)
(* from their fields.                                                      *)
(***************************************************************************)
MaxMounts == 1     \* lines of /proc/mounts
MaxMountName == 2  \* characters of the last component of a mountpoint

Zfs == <<"z", "f", "s">>
Xfs == <<"x", "f", "s">>
MntRoot == <<"/", "m", "n", "t", "/">>

\* str.lower(), on the letters that occur
LowerChar(ch) ==
    CASE ch = "Z" -> "z"
      [] ch = "F" -> "f"
      [] ch = "S" -> "s"
      [] OTHER    -> ch
Lower(s) == [i \in DOMAIN s |-> LowerChar(s[i])]

\* sub in s
Contains(s, sub) ==
    \E i \in 1..(Len(s) - Len(sub) + 1) : SubSeq(s, i, i + Len(sub) - 1) = sub

\* str.endswith(suf)
EndsWith(s, suf) ==
    Len(suf) <= Len(s) /\ SubSeq(s, Len(s) - Len(suf) + 1, Len(s)) = suf

\* str.rstrip(ch)
RECURSIVE RStrip(_, _)
RStrip(s, ch) ==
    IF s # <<>> /\ s[Len(s)] = ch
    THEN RStrip(SubSeq(s, 1, Len(s) - 1), ch)
    ELSE s

\* str.split(ch)
RECURSIVE Split(_, _)
Split(s, ch) ==
    IF \E i \in DOMAIN s : s[i] = ch
    THEN LET i == CHOOSE j \in DOMAIN s :
                      s[j] = ch /\ \A l \in 1..(j - 1) : s[l] # ch
         IN  <<SubSeq(s, 1, i - 1)>> \o Split(SubSeq(s, i + 1, Len(s)), ch)
    ELSE <<s>>

\* What subprocess.run(['df', '-T', path], timeout=5) does: it raises
\* TimeoutExpired or an OSError, or it returns with a return code and the
\* text df wrote.  The row df prints for the file system of the path holds
\* the device, the type and the mountpoint; the header row holds no "zfs".
DfRow(device, type, mounted_on) ==
    device \o <<" ">> \o type \o <<" ">> \o mounted_on
DfDevices == { <<"d">> }
DfTypes == { Zfs, Xfs }
DfMountedOn == { MntRoot \o <<"t">>, MntRoot \o Zfs, MntRoot \o <<"Z", "F", "S">> }
DfRaises == { [raises |-> e, returncode |-> 0, type |-> <<>>, stdout |-> <<>>] :
                e \in {"TimeoutExpired", "OSError"} }
DfReturns ==
    { [raises |-> None, returncode |-> rc, type |-> ty,
       stdout |-> DfRow(dv, ty, mo)] :
        rc \in {0, 1}, dv \in DfDevices, ty \in DfTypes, mo \in DfMountedOn }
Probes == DfRaises \cup DfReturns

\* The lines of /proc/mounts after line.split(): the mountpoint (fields[1])
\* and the file system type (fields[2]).
MountNames == SeqsUpTo({"t", "2"}, MaxMountName) \ {<<>>}
Mountpoints ==
    { MntRoot \o n : n \in MountNames } \cup
    { MntRoot \o n \o <<"/">> : n \in MountNames }
MountLines == [mountpoint : Mountpoints, fs_type : {Zfs, Xfs}]
MountTables == { S \in SUBSET MountLines : Cardinality(S) <= MaxMounts }

\* The paths detect_zfs is asked about.
DetectHeads == { UserRoot, ArrayRoot, SubSeq(UserRoot, 1, Len(UserRoot) - 1) }
DetectPaths ==
    { h \o tl : h \in DetectHeads, tl \in SeqsUpTo({"t", "/"}, MaxTail) }

InitZfsFs ==
    /\ probe = CHOOSE pr \in Probes : pr.raises = "OSError"
    /\ mounts = {}
    /\ zfsArg = <<>>
    /\ zfsRet = FALSE

\* fs_type == 'zfs' and mountpoint.rstrip('/').endswith('/' + share_name),
\* for some line
_check_zfs_mount_for_share(share_name) ==
    \E line \in mounts :
        /\ line.fs_type = Zfs
        /\ EndsWith(RStrip(line.mountpoint, "/"), <<"/">> \o share_name)

\* result.returncode == 0 and 'zfs' in result.stdout.lower()
DfSaysZfs(pr) ==
    /\ pr.raises = None
    /\ pr.returncode = 0
    /\ Contains(Lower(pr.stdout), Zfs)

detect_zfs(path) ==
    IF DfSaysZfs(probe)
    THEN TRUE
    ELSE IF StartsWith(path, UserRoot)
         THEN LET parts == Split(RStrip(path, "/"), "/")
              IN  IF Len(parts) >= 4
                  THEN _check_zfs_mount_for_share(parts[4])   \* parts[3], counted from 0
                  ELSE FALSE
         ELSE FALSE

\* The environment: what df will answer, and the mount table.
SetProbe(pr) ==
    /\ UNCHANGED <<arbVars, lockVars, pathVars, fileVars>>
    /\ probe' = pr
    /\ zfsArg' = <<>>
    /\ zfsRet' = FALSE
    /\ UNCHANGED mounts

SetMounts(table) ==
    /\ UNCHANGED <<arbVars, lockVars, pathVars, fileVars>>
    /\ mounts' = table
    /\ zfsArg' = <<>>
    /\ zfsRet' = FALSE
    /\ UNCHANGED probe

DetectZfs(path) ==
    /\ UNCHANGED <<arbVars, lockVars, pathVars, fileVars>>
    /\ zfsArg' = path
    /\ zfsRet' = detect_zfs(path)
    /\ UNCHANGED <<probe, mounts>>

(***************************************************************************)
(* FileUtils.copy_file_with_permissions and                                *)
(* create_directory_with_permissions.  One destination file and one        *)
(* destination directory; a call runs to its end in one step, the step of  *)
(* the operating system that fails, if any, being an input.                *)
(***************************************************************************)
\* uid and gid of the process (root), and the owners source files have
ProcOwner == [uid |-> 0, gid |-> 0]
Owners == { [uid |-> 1, gid |-> 2], [uid |-> 2, gid |-> 1] }
\* permission bits: 0o644, 0o666, 0o777 and 0o022, 0o077
SrcMode == 420
CreateMode == 438
DirMode == 511
Masks == { 18, 63 }

\* FileUtils.__init__: permissions = 0o777
Permissions == { 511 }

Absent == [exists |-> FALSE, content |-> None, owner |-> ProcOwner, mode |-> 0]
SrcFiles ==
    [exists : {TRUE}, content : {"a", "b"}, owner : Owners, mode : {SrcMode}]

\* mode & ~mask, for the modes and masks above
MaskedMode(mode, mask) ==
    CASE mode = CreateMode /\ mask = 18 -> 420
      [] mode = CreateMode /\ mask = 63 -> 384
      [] mode = DirMode /\ mask = 18    -> 493
      [] mode = DirMode /\ mask = 63    -> 448
      [] OTHER                          -> mode

NoFileRet ==
    [op |-> None, result |-> None, failed_at |-> None, src |-> Absent,
     permissions |-> 0, is_linux |-> FALSE]

InitFileFs ==
    /\ umask \in Masks
    /\ destFile = Absent
    /\ destDir = Absent
    /\ fileRet = NoFileRet

\* open(dest, 'wb'): an existing file is truncated and keeps its owner and
\* mode, a new one belongs to the process and gets 0o666 & ~umask
Opened(d, mask) ==
    IF d.exists
    THEN [d EXCEPT !.content = "partial"]
    ELSE [exists |-> TRUE, content |-> "partial", owner |-> ProcOwner,
          mode |-> MaskedMode(CreateMode, mask)]

\* shutil.copy2(src, dest): the content, then the permission bits and times
Copy2(d, mask, s) == [Opened(d, mask) EXCEPT !.content = s.content, !.mode = s.mode]

\* an ownership restore that gives the file to the process
ChownToProcess(d, s) == [d EXCEPT !.owner = ProcOwner]

\* os.chown(dest, src_uid, src_gid)
Chown(d, s) == [d EXCEPT !.owner = s.owner]

\* os.chmod(dest, self.permissions)
Chmod(d, permissions) == [d EXCEPT !.mode = permissions]

\* os.makedirs(path, exist_ok=True) of a path that is absent
Makedirs(mask) ==
    [exists |-> TRUE, content |-> None, owner |-> ProcOwner,
     mode |-> MaskedMode(DirMode, mask)]

CopyFailPoints == {"none", "stat", "copy_open", "copy_write", "chown", "chmod"}
MkdirFailPoints == {"none", "stat", "makedirs", "chown", "chmod"}

\* The destination, the mask and the outcome of copy_file_with_permissions
\* when the step `fail` raises.  Every exception is caught at line 328 and
\* raised again as a RuntimeError.
copy_file_with_permissions(d, mask, s, permissions, is_linux, fail) ==
    LET raised(dd, mm) == [dest |-> dd, umask |-> mm, result |-> "RuntimeError"]
        opened  == Opened(d, mask)
        copied  == Copy2(d, mask, s)
        chowned == Chown(copied, s)
    IN  IF is_linux
        THEN CASE fail = "stat"       -> raised(d, mask)
               [] fail = "copy_open"  -> raised(d, mask)
               [] fail = "copy_write" -> raised(opened, mask)
               [] fail = "chown"      -> raised(copied, mask)
               [] fail = "chmod"      -> raised(chowned, 0)
               [] OTHER -> [dest |-> Chmod(chowned, permissions),
                            umask |-> mask, result |-> "ok"]
        ELSE CASE fail = "copy_open"  -> raised(d, mask)
               [] fail = "copy_write" -> raised(opened, mask)
               [] OTHER -> [dest |-> copied, umask |-> mask, result |-> "ok"]

\* The directory, the mask and the outcome of
\* create_directory_with_permissions; nothing catches what a step raises.
create_directory_with_permissions(d, mask, s, permissions, is_linux, fail) ==
    LET raised(dd, mm) == [dest |-> dd, umask |-> mm, result |-> "OSError"]
        made    == Makedirs(0)
        chowned == Chown(made, s)
    IN  IF d.exists
        THEN [dest |-> d, umask |-> mask, result |-> "ok"]
        ELSE IF is_linux
             THEN CASE fail = "stat"     -> raised(d, mask)
                    [] fail = "makedirs" -> raised(d, 0)
                    [] fail = "chown"    -> raised(made, 0)
                    [] fail = "chmod"    -> raised(chowned, 0)
                    [] OTHER -> [dest |-> Chmod(chowned, permissions),
                                 umask |-> mask, result |-> "ok"]
             ELSE CASE fail = "makedirs" -> raised(d, mask)
                    [] OTHER -> [dest |-> Makedirs(mask), umask |-> mask,
                                 result |-> "ok"]

\* Which steps a call runs at all
CopySteps(is_linux) ==
    IF is_linux THEN CopyFailPoints ELSE {"none", "copy_open", "copy_write"}
MkdirSteps(d, is_linux) ==
    IF d.exists THEN {"none"}
    ELSE IF is_linux THEN MkdirFailPoints ELSE {"none", "makedirs"}

CopyFileWithPermissions(s, permissions, is_linux, fail) ==
    LET r == copy_file_with_permissions(destFile, umask, s, permissions,
                                        is_linux, fail)
    IN  /\ UNCHANGED <<arbVars, lockVars, pathVars, zfsVars>>
        /\ fail \in CopySteps(is_linux)
        /\ destFile' = r.dest
        /\ umask' = r.umask
        /\ fileRet' = [op |-> "copy", result |-> r.result, failed_at |-> fail,
                       src |-> s, permissions |-> permissions,
                       is_linux |-> is_linux]
        /\ UNCHANGED destDir

CreateDirectoryWithPermissions(s, permissions, is_linux, fail) ==
    LET r == create_directory_with_permissions(destDir, umask, s, permissions,
                                               is_linux, fail)
    IN  /\ UNCHANGED <<arbVars, lockVars, pathVars, zfsVars>>
        /\ fail \in MkdirSteps(destDir, is_linux)
        /\ destDir' = r.dest
        /\ umask' = r.umask
        /\ fileRet' = [op |-> "mkdir", result |-> r.result, failed_at |-> fail,
                       src |-> s, permissions |-> permissions,
                       is_linux |-> is_linux]
        /\ UNCHANGED destFile

\* Another program removes the destination file or directory.
RemoveDestination ==
    /\ UNCHANGED <<arbVars, lockVars, pathVars, zfsVars>>
    /\ destFile.exists \/ destDir.exists
    /\ destFile' = Absent
    /\ destDir' = Absent
    /\ fileRet' = NoFileRet
    /\ UNCHANGED umask

(***************************************************************************)
(* The specifications.                                                     *)
(***************************************************************************)
\* Outside SpecFile the mask is the usual 0o022.
InitRest == InitZfsFs /\ InitFileFs /\ umask = 18

InitPath == InitPathFs /\ InitArbiter /\ InitLockFs /\ InitRest
NextPath ==
    \/ \E prefixes \in PrefixSets : SetZfsPrefixes(prefixes)
    \/ \E path \in Paths : GetArrayDirectPath(path)
SpecPath == InitPath /\ [][NextPath]_vars

InitLock == InitLockFs /\ InitArbiter /\ InitPathFs /\ InitRest
NextLock == \E p \in Procs : LockStep(p)
SpecLock == InitLock /\ [][NextLock]_vars

Init == InitArbiter /\ InitLockFs /\ InitPathFs /\ InitRest
Next ==
    \/ \E c \in Callers : ControlStep(c)
    \/ \E c \in Callers : OpStep(c)
    \/ WorkerStep
    \/ OpWorkerStep
Spec == Init /\ [][Next]_vars

NextStatus ==
    \/ \E c \in Pollers : PollStep(c)
    \/ \E c \in Callers \ Pollers : ControlStep(c)
    \/ WorkerStep
SpecStatus == Init /\ [][NextStatus]_vars

InitZfs == InitZfsFs /\ InitArbiter /\ InitLockFs /\ InitPathFs /\ InitFileFs /\ umask = 18
NextZfs ==
    \/ \E pr \in Probes : SetProbe(pr)
    \/ \E table \in MountTables : SetMounts(table)
    \/ \E path \in DetectPaths : DetectZfs(path)
SpecZfs == InitZfs /\ [][NextZfs]_vars

InitFile == InitArbiter /\ InitLockFs /\ InitPathFs /\ InitZfsFs /\ InitFileFs
NextFile ==
    \/ \E s \in SrcFiles, permissions \in Permissions, is_linux \in BOOLEAN,
          fail \in CopyFailPoints :
            CopyFileWithPermissions(s, permissions, is_linux, fail)
    \/ \E s \in SrcFiles, permissions \in Permissions, is_linux \in BOOLEAN,
          fail \in MkdirFailPoints :
            CreateDirectoryWithPermissions(s, permissions, is_linux, fail)
    \/ RemoveDestination
SpecFile == InitFile /\ [][NextFile]_vars

(***************************************************************************)
(* Properties.                                                             *)
(***************************************************************************)

\* C1: at no instant are both execution slots, the scheduled caching pass and
\* the maintenance action, in state RUNNING.
C1_NeverBothRunning == ~(state = RUNNING /\ opState = RUNNING)

\* C2: for one lock file path at most one process holds a valid (held = true)
\* instance-lock handle at any time.
C2_AtMostOneHolder == Cardinality({p \in Procs : Holds(p)}) <= 1

C3_Suffixes(s) == { SubSeq(s, i, Len(s)) : i \in 1..(Len(s) + 1) }
C3_UnderUserRoot(s) == \E suf \in C3_Suffixes(s) : s = UserRoot \o suf
C3_Registered(s) ==
    \E pre \in zfsPrefixes : \E suf \in C3_Suffixes(s) : s = pre \o suf

\* C3: get_array_direct_path returns its input unchanged when the path is not
\* under the union-mount root, unchanged when it is under the root and starts
\* with a registered ZFS prefix, and otherwise the array-direct root followed
\* by exactly the part of the path after the union-mount root.
C3_ToVerificationPath ==
    /\ ~C3_UnderUserRoot(pathArg) => pathOut = pathArg
    /\ C3_UnderUserRoot(pathArg) /\ C3_Registered(pathArg) => pathOut = pathArg
    /\ C3_UnderUserRoot(pathArg) /\ ~C3_Registered(pathArg) =>
          \E suf \in C3_Suffixes(pathArg) :
              pathArg = UserRoot \o suf /\ pathOut = ArrayRoot \o suf

\* a path of an unregistered share was remapped while another share is registered
C3_Witness ==
    /\ zfsPrefixes # {}
    /\ C3_UnderUserRoot(pathArg)
    /\ ~C3_Registered(pathArg)
    /\ Len(pathArg) > Len(UserRoot)
    /\ pathOut # pathArg

C4_SlotUnchanged == UNCHANGED <<state, stop, resultRef, heap>>

\* C4: a start call that finds the sibling slot RUNNING at its check, or its
\* own slot RUNNING under its lock, returns false and leaves the slot's
\* state, result record and stop flag as they were; a start call that finds
\* neither sets the slot RUNNING and returns true with the slot RUNNING.
C4_StartContract ==
    [][ /\ (lastRet' = Ret("start", FALSE, None) /\ call' = call)
            => (opState = RUNNING /\ C4_SlotUnchanged)
        /\ \A c \in Callers :
            /\ (call[c].pc = "idle" /\ opState = RUNNING)
                   => call'[c].pc # "start_lock"
            /\ (call[c].pc = "start_lock" /\ call'[c].pc = "idle")
                   => /\ state = RUNNING
                      /\ lastRet' = Ret("start", FALSE, None)
                      /\ C4_SlotUnchanged
            /\ (call[c].pc = "start_lock" /\ state = RUNNING)
                   => call'[c].pc # "start_launch"
            /\ (call[c].pc = "start_lock" /\ call'[c].pc = "start_launch")
                   => (state # RUNNING /\ state' = RUNNING)
            /\ (call[c].pc = "start_launch" /\ call'[c].pc = "idle")
                   => (lastRet' = Ret("start", TRUE, None) /\ state' = RUNNING)
        /\ (lastRet' = Ret("start", TRUE, None)) => state' = RUNNING
      ]_vars

\* A start was refused because the operation slot was RUNNING, and the
\* maintenance slot is still IDLE with no result record.
C4_Witness ==
    /\ lastRet = Ret("start", FALSE, None)
    /\ opState = RUNNING
    /\ state = IDLE
    /\ resultRef = 0
    /\ \A c \in Callers : call[c].pc = "idle"

\* C5: a run whose work raised ends FAILED with a non-empty error message
\* and the exception stays inside the worker; a run whose work returned,
\* also after an honoured stop request, ends COMPLETED.
C5_RaiseMeansFailed ==
    [][ \A k \in DOMAIN workers :
          /\ (workers[k].pc = "set_state" /\ workers'[k].pc # "set_state")
                 => IF Raised(workers[k].outcome)
                    THEN /\ state' = FAILED
                         /\ Truthy(heap'[resultRef].error_message)
                    ELSE state' = COMPLETED
          /\ ~workers'[k].escaped
      ]_vars

\* C6: an acquire whose flock is attempted while another handle holds the
\* lock returns false; an acquire attempted when no other handle holds a
\* flock (the holder released, or its process ended) goes on to return true.
C6_AcquireExcludes ==
    [][ \A p \in Procs :
          (/\ lk[p].pc = "opened"
           /\ \/ lk'[p].pc = "flocked"
              \/ lockRet' = LockRet(p, "acquire", FALSE))
          => /\ (\E q \in Procs \ {p} : Holds(q))
                   => lockRet' = LockRet(p, "acquire", FALSE)
             /\ (\A q \in Procs \ {p} : ~OwnsFlock(q))
                   => lk'[p].pc = "flocked"
      ]_vars

\* The steps that may change the state of the maintenance slot.
C7_StartStep ==
    \E c \in Callers :
        call[c].pc = "start_lock" /\ call'[c].pc = "start_launch"
C7_WorkerStep ==
    \E k \in DOMAIN workers :
        workers[k].pc = "set_state" /\ workers'[k].pc # "set_state"
C7_DismissStep == lastRet'.op = "dismiss"
C7_StopStep == lastRet'.op = "stop"

\* C7 as stated: the state changes along IDLE -> RUNNING by start, RUNNING
\* -> COMPLETED or FAILED by the worker finishing, COMPLETED or FAILED ->
\* IDLE by dismiss, and in no other way; a stop request never changes it.
C7_DiagramOnly ==
    [][ /\ state' # state =>
              \/ state = IDLE /\ state' = RUNNING /\ C7_StartStep
              \/ state = RUNNING /\ state' \in {COMPLETED, FAILED}
                    /\ C7_WorkerStep
              \/ state \in {COMPLETED, FAILED} /\ state' = IDLE
                    /\ C7_DismissStep
        /\ C7_StopStep => state' = state
      ]_vars

\* C7: the state changes along IDLE, COMPLETED or FAILED -> RUNNING by
\* start, RUNNING -> COMPLETED or FAILED by the worker finishing, COMPLETED
\* or FAILED -> IDLE by dismiss, and in no other way; a stop request never
\* changes it.
C7_Edges ==
    [][ /\ state' # state =>
              \/ state \in {IDLE, COMPLETED, FAILED} /\ state' = RUNNING
                    /\ C7_StartStep
              \/ state = RUNNING /\ state' \in {COMPLETED, FAILED}
                    /\ C7_WorkerStep
              \/ state \in {COMPLETED, FAILED} /\ state' = IDLE
                    /\ C7_DismissStep
        /\ C7_StopStep => state' = state
      ]_vars

\* A second run was started while the first one's terminal state had not
\* been dismissed.
C7_Witness ==
    /\ state = RUNNING
    /\ resultRef = 2
    /\ heap[1].state \in {COMPLETED, FAILED}

\* C8 as stated: once a worker has completed the slot stays COMPLETED or
\* FAILED until a dismiss, which takes it to IDLE; dismiss in COMPLETED or
\* FAILED yields IDLE, dismiss in IDLE or RUNNING changes nothing.
C8_TerminalUntilDismiss ==
    [][ /\ C7_WorkerStep => state' \in {COMPLETED, FAILED}
        /\ (state \in {COMPLETED, FAILED} /\ state' # state)
              => (C7_DismissStep /\ state' = IDLE)
        /\ (C7_DismissStep /\ state \in {COMPLETED, FAILED}) => state' = IDLE
        /\ (C7_DismissStep /\ state \in {IDLE, RUNNING})
              => UNCHANGED <<state, stop, resultRef, heap, thread, workers>>
      ]_vars

\* C8: once a worker has completed the slot is COMPLETED or FAILED and
\* leaves that state only through a dismiss, to IDLE, or a new start, to
\* RUNNING; it returns to IDLE through dismiss only; dismiss in COMPLETED
\* or FAILED yields IDLE, dismiss in IDLE or RUNNING changes nothing.
C8_TerminalUntilDismissOrStart ==
    [][ /\ C7_WorkerStep => state' \in {COMPLETED, FAILED}
        /\ (state \in {COMPLETED, FAILED} /\ state' # state)
              => \/ C7_DismissStep /\ state' = IDLE
                 \/ C7_StartStep /\ state' = RUNNING
        /\ (state # IDLE /\ state' = IDLE) => C7_DismissStep
        /\ (C7_DismissStep /\ state \in {COMPLETED, FAILED}) => state' = IDLE
        /\ (C7_DismissStep /\ state \in {IDLE, RUNNING})
              => UNCHANGED <<state, stop, resultRef, heap, thread, workers>>
      ]_vars

\* A failed run was dismissed: the slot is IDLE again and its result
\* record, still referenced, says IDLE.
C8_Witness ==
    /\ lastRet.op = "dismiss"
    /\ state = IDLE
    /\ resultRef # 0
    /\ heap[resultRef].state = IDLE
    /\ heap[resultRef].error_message # None

\* C9: a run started with a completion callback has it invoked exactly once
\* by the time its worker ends, whether the work returned or raised, and
\* only after the run's terminal state has been set; the callback step,
\* raising or not, leaves the state and the result record as they were.
C9_CallbackOnce ==
    [][ \A k \in DOMAIN workers' :
          LET w == workers'[k]
          IN  /\ w.cb_calls <= 1
              /\ w.pc = "done" => w.cb_calls = (IF w.on_complete THEN 1 ELSE 0)
              /\ (k \in DOMAIN workers /\ w.cb_calls # workers[k].cb_calls)
                    => /\ workers[k].pc = "callback"
                       /\ heap[k].state # RUNNING
                       /\ heap[k].completed_at # 0
                       /\ (Truthy(CaughtMessage(w.outcome))
                              => heap[k].error_message # None)
                       /\ UNCHANGED <<state, stop, resultRef, heap>>
      ]_vars

\* The work of a run raised, its callback was called once and raised too,
\* and the slot is FAILED.
C9_Witness ==
    \E k \in DOMAIN workers :
        /\ workers[k].pc = "done"
        /\ workers[k].on_complete
        /\ workers[k].outcome = "exc_msg"
        /\ workers[k].cb_calls = 1
        /\ workers[k].cb_raised
        /\ state = FAILED
        /\ resultRef = k

\* C10: in every dictionary get_status_dict returns, "is_running" is true
\* exactly when "state" is RUNNING.
C10_IsRunningIffRunning ==
    lastRet.op = "status"
        => (lastRet.snap.is_running <=> lastRet.snap.state = RUNNING)

\* C11: every dictionary get_status_dict returns shows the slot as it was at
\* one instant; in particular one that says "running" carries no completion
\* time, no duration, no error message and no action result.
C11_SnapshotOfOneInstant ==
    (lastRet.op = "status" /\ lastRet.snap.state = RUNNING)
        => /\ lastRet.snap.completed_at = 0
           /\ lastRet.snap.duration_seconds = 0
           /\ lastRet.snap.error_message = None
           /\ ~lastRet.snap.has_result

\* C12: a stop call returns true and sets the stop flag when the slot is
\* RUNNING, and returns false and changes nothing otherwise; a successful
\* start clears the flag and nothing else changes it, so the flag a run's
\* work reads through stop_check is true exactly when a stop call returned
\* true since the run was started; the work ends as stopped only on a true
\* answer.
C12_StopFlag ==
    [][ /\ C7_StopStep =>
              /\ lastRet'.ok <=> state = RUNNING
              /\ lastRet'.ok => stop'
              /\ ~lastRet'.ok => UNCHANGED <<state, stop, resultRef, heap,
                                             thread, workers>>
              /\ UNCHANGED <<state, resultRef, heap, thread, workers>>
        /\ C7_StartStep => ~stop'
        /\ stop' # stop =>
              \/ C7_StopStep /\ lastRet'.ok /\ stop'
              \/ C7_StartStep /\ ~stop'
        /\ \A k \in DOMAIN workers :
              (workers[k].pc = "work" /\ workers'[k].outcome = "stopped")
                 => (stop /\ state = RUNNING /\ resultRef = k)
      ]_vars

\* The first run was stopped and honoured it; the second run has been
\* started and its stop flag is clear.
C12_Witness ==
    /\ Len(workers) = 2
    /\ workers[1].outcome = "stopped"
    /\ workers[2].pc = "work"
    /\ state = RUNNING
    /\ ~stop

\* C13: an acquire that returned false did so because another process holds
\* the flock of the lock file, and it leaves its own handle not held.
C13_FalseMeansOtherHolds ==
    (lockRet.op = "acquire" /\ ~lockRet.ok)
        => /\ \E q \in Procs \ {lockRet.proc} : OwnsFlock(q)
           /\ ~lk[lockRet.proc].locked

\* C14: a release call on a held handle ends with the handle not held and
\* its descriptor closed, so that a further call finds nothing to do; a
\* release call on a handle that is not held changes nothing.
C14_ReleaseIdempotent ==
    [][ \A p \in Procs :
          (lockRet'.op = "release" /\ lockRet'.proc = p)
             => /\ ~lk'[p].locked
                /\ lk'[p].fd = 0
                /\ (lk[p].pc = "idle" /\ ~lk[p].locked)
                      => UNCHANGED <<pathInode, content, flockOwner, lk>>
      ]_vars

\* The path is a registered prefix or continues one at a path separator.
C20_InRegisteredShare(s) ==
    \E pre \in zfsPrefixes :
        /\ StartsWith(s, pre)
        /\ \/ Len(s) = Len(pre)
           \/ pre # <<>> /\ pre[Len(pre)] = "/"
           \/ s[Len(pre) + 1] = "/"

\* C20: a path under the union mount comes back unchanged only when it
\* belongs to a registered ZFS share; a path in another share, whose name
\* only begins with a registered share's name, is remapped.
C20_OnlyRegisteredSharesKept ==
    (StartsWith(pathArg, UserRoot) /\ pathOut = pathArg)
        => C20_InRegisteredShare(pathArg)

\* The primary probe ran, succeeded and names a ZFS file system type.
C15_ProbeReportsZfs ==
    probe.raises = None /\ probe.returncode = 0 /\ Lower(probe.type) = Zfs

\* s without its trailing separators
C15_Stripped(s) ==
    LET k == CHOOSE n \in 0..Len(s) :
                 /\ n = 0 \/ s[n] # "/"
                 /\ \A j \in (n + 1)..Len(s) : s[j] = "/"
    IN  SubSeq(s, 1, k)

\* The path component right after the union-mount root.
C15_ShareName(path) ==
    LET rest == SubSeq(path, Len(UserRoot) + 1, Len(path))
        k == CHOOSE n \in 0..Len(rest) :
                 /\ \A j \in 1..n : rest[j] # "/"
                 /\ n = Len(rest) \/ rest[n + 1] = "/"
    IN  SubSeq(rest, 1, k)

\* The last component of a mountpoint.
C15_FinalComponent(mountpoint) ==
    LET s == C15_Stripped(mountpoint)
        k == CHOOSE n \in 0..Len(s) :
                 /\ \A j \in (Len(s) - n + 1)..Len(s) : s[j] # "/"
                 /\ n = Len(s) \/ s[Len(s) - n] = "/"
    IN  SubSeq(s, Len(s) - k + 1, Len(s))

C15_MountTableSaysZfs(path) ==
    /\ C3_UnderUserRoot(path)
    /\ C15_ShareName(path) # <<>>
    /\ \E line \in mounts :
          /\ line.fs_type = Zfs
          /\ C15_FinalComponent(line.mountpoint) = C15_ShareName(path)

\* C15: detect_zfs answers true when the probe reports a ZFS type; when the
\* probe fails, times out or reports another type it answers true exactly
\* when the path is under the union-mount root and the mount table has a ZFS
\* entry whose mountpoint ends in the share name of the path.
C15_DetectContract ==
    zfsArg # <<>>
        => (zfsRet <=> (C15_ProbeReportsZfs \/ C15_MountTableSaysZfs(zfsArg)))

\* The step of a copy_file_with_permissions call on a platform with
\* ownership semantics.
C16_CopyStep == fileRet'.op = "copy" /\ fileRet'.is_linux

C19_UmaskRestored ==
    [][ fileRet'.op \in {"copy", "mkdir"} => umask' = umask ]_vars

\* A worker thread exists from its launch until it has left _run_action,
\* the completion callback included.
C17_Alive(k) == workers[k].pc # "done"

\* C17: at most one worker thread of the maintenance slot exists at any
\* instant.
C17_AtMostOneWorker ==
    Cardinality({ k \in DOMAIN workers : C17_Alive(k) }) <= 1

\* What a run leaves in its result record, the state field apart.
C18_Fields(r) == [r EXCEPT !.state = None]

\* C18: the fields of a result record change only while its run is RUNNING;
\* once the run is terminal, and after dismiss, the slot refers to the same
\* record with the same action name, display text, timestamps, duration,
\* file count, error message and action result, until a successful start
\* puts a new record in its place.
C18_TerminalRecordReadOnly ==
    [][ /\ \A k \in DOMAIN heap :
              (k # resultRef \/ state # RUNNING)
                 => C18_Fields(heap'[k]) = C18_Fields(heap[k])
        /\ resultRef' # resultRef
              => (C7_StartStep /\ state # RUNNING /\ resultRef' = Len(heap) + 1)
      ]_vars

\* A run that produced an action result was dismissed: the slot is IDLE and
\* still refers to its record, completion time and result in place.
C18_Witness ==
    /\ state = IDLE
    /\ resultRef # 0
    /\ heap[resultRef].state = IDLE
    /\ heap[resultRef].completed_at # 0
    /\ heap[resultRef].action_result # None
    /\ heap[resultRef].action_name = "sync-to-array"

\* C21: while a process holds the instance lock, the file it locked
\* contains that process's id.
C21_HolderPidInFile ==
    \A p \in Procs : Holds(p) => content[lk[p].fd] = p

\* A step of a release call of process p.
C22_ReleaseStep(p) ==
    /\ lk[p].pc \in {"idle", "rel_close", "rel_exists", "rel_remove"}
    /\ \/ /\ lk'[p] # lk[p]
          /\ lk'[p].last = lk[p].last
          /\ lk'[p].pc \in {"idle", "rel_close", "rel_exists", "rel_remove"}
       \/ lockRet' = LockRet(p, "release", TRUE)
       \/ lockRet' = LockRet(p, "release", FALSE)

\* C22: a release called on a handle whose last acquire returned false
\* neither unlocks nor removes the lock file, and a process that holds the
\* lock goes on holding it.
C22_FailedHandleHarmless ==
    [][ \A p \in Procs :
          (lk[p].last = "failed" /\ C22_ReleaseStep(p))
             => /\ UNCHANGED <<pathInode, flockOwner>>
                /\ \A q \in Procs \ {p} : Holds(q) => Holds(q)'
      ]_vars
====
